---- MODULE Spec2Model ----
(***************************************************************************)
(* The pubsubsql Go client (src/client.go) as a state machine.             *)
(*                                                                         *)
(* The Client struct is the record `this`.  Every public operation is an   *)
(* action.  Execute, NextRow and WaitForPubSub block in a frame read; the  *)
(* variable pc holds the operation that is standing at its read call, and  *)
(* one read step takes the outcome of that read (a frame, a timeout or a   *)
(* transport error) and runs the handler on to its return or to its next   *)
(* read call.                                                              *)
(*                                                                         *)
(* A payload (a []byte) is a record: its length in bytes, whether it is    *)
(* well-formed JSON of the right types, and for a well-formed one the JSON *)
(* object as a record of the keys that occur in it.  The nil slice and the *)
(* empty slice are the same value: the code only ever takes len() and      *)
(* string() of a slice.                                                    *)
(***************************************************************************)
EXTENDS Integers, Sequences, FiniteSets, TLC

VARIABLES
    this,       \* the Client struct
    pc,         \* "idle", or the operation standing at its read call
    op,         \* the operation called last
    ret,        \* what the operation that returned last returned
    wire,       \* the request ids of the frames the client wrote, oldest first
    lastRead,   \* the outcome of the last read of the current call
    decoded,    \* the payload last handed to unmarshalJSON by the current call
    scenario    \* bookkeeping of a result set delivered in consecutive batches

vars == <<this, pc, op, ret, wire, lastRead, decoded, scenario>>

----------------------------------------------------------------------------
(* Bounds of the model *)

\* write() calls made by one client: requestId, a uint32, counts them, and
\* the model stops far below 2^32, where it wraps to 0
MaxRequestId == 3
\* payloads kept on the backlog
MaxBacklog == 2
\* rows of a result set
MaxRows == 2

----------------------------------------------------------------------------
(* Payloads *)

\* nil, and the payload of a frame of size 0
NilBytes == [size |-> 0, valid |-> FALSE]

\* bytes that are not JSON
Garbage == [size |-> 1, valid |-> FALSE]

Json(obj) == [size |-> 2, valid |-> TRUE, obj |-> obj]

RowData(n) == <<ToString(n), "x">>

Batch(rows, from, to) ==
    Json([status |-> "ok", action |-> "select",
          rows |-> rows, fromrow |-> from, torow |-> to,
          columns |-> <<"a", "b">>,
          data |-> [i \in 1..(to - from + 1) |-> RowData(from + i - 1)]])

\* the batches of a result set of MaxRows rows
Windows == {w \in (1..MaxRows) \X (1..MaxRows) : w[1] <= w[2]}
Batches == {Batch(MaxRows, w[1], w[2]) : w \in Windows}

\* a batch whose window runs backwards
Reversed == Batch(MaxRows, MaxRows + 1, 1)

Subscribed == Json([status |-> "ok", action |-> "subscribe", pubsubid |-> "7"])

SyntaxError == Json([status |-> "err", msg |-> "syntax error", action |-> "select"])

ErrNoMsg == Json([status |-> "err", action |-> "select"])

\* what the frame that answers a command carries
Payloads ==
    {NilBytes, Garbage, Subscribed, SyntaxError, ErrNoMsg, Reversed} \cup Batches

\* what a pub/sub frame carries
PubSubPayloads == {NilBytes, Subscribed, Batch(MaxRows, 1, MaxRows)}

\* what a frame of another command carries: a batch of its result set
StalePayloads == Batches

----------------------------------------------------------------------------
(* responseData *)

EmptyResponse ==
    [Status |-> "", Msg |-> "", Action |-> "", Id |-> "", PubSubId |-> "",
     Rows |-> 0, Fromrow |-> 0, Torow |-> 0, Columns |-> <<>>, Data |-> <<>>]

\* responseData.reset: every field but Id
responseReset(r) ==
    [r EXCEPT !.Status = "", !.Msg = "", !.Action = "", !.PubSubId = "",
              !.Rows = 0, !.Fromrow = 0, !.Torow = 0,
              !.Columns = <<>>, !.Data = <<>>]

\* the JSON key that encoding/json stores into each field of responseData
JsonKey ==
    [Status |-> "status", Msg |-> "msg", Action |-> "action", Id |-> "id",
     PubSubId |-> "pubsubid", Rows |-> "rows", Fromrow |-> "fromrow",
     Torow |-> "torow", Columns |-> "columns", Data |-> "data"]

\* json.Unmarshal(bytes, &r): a syntax error leaves r alone; a key of the
\* object overwrites its field, a field whose key is absent keeps its value
Unmarshal(bytes, r) ==
    IF ~bytes.valid
    THEN [err |-> IF bytes.size = 0 THEN "unexpected end of JSON input"
                                    ELSE "invalid character", value |-> r]
    ELSE [err |-> "",
          value |-> [f \in DOMAIN r |->
                        IF JsonKey[f] \in DOMAIN bytes.obj
                        THEN bytes.obj[JsonKey[f]] ELSE r[f]]]

----------------------------------------------------------------------------
(* Client: the private methods, as functions of the struct *)

NewClient ==
    [rw |-> FALSE, requestId |-> 0, err |-> "", rawjson |-> NilBytes,
     response |-> EmptyResponse, record |-> -1, columns |-> {},
     backlog |-> <<>>]

resetError(c) == [c EXCEPT !.err = ""]

\* reset without the assignment to record
resetKeepsRecord(c) ==
    [resetError(c) EXCEPT !.response = responseReset(@),
                          !.rawjson = NilBytes]

reset(c) ==
    [resetError(c) EXCEPT !.response = responseReset(@),
                          !.rawjson = NilBytes,
                          !.record = -1]

\* setErrorString without its reset: the record is left as it is
setErrorStringKeepsRecord(c, e) == [c EXCEPT !.err = e]

setErrorString(c, e) == [reset(c) EXCEPT !.err = e]

setError(c, e) == setErrorString(c, e)

\* the map built by setColumns: name -> ordinal, as a set of pairs; a name
\* that occurs twice keeps its last ordinal
ColumnMap(cols) ==
    {<<cols[i], i - 1>> : i \in {j \in DOMAIN cols :
                                   \A k \in DOMAIN cols : cols[k] = cols[j] => k <= j}}

setColumns(c) ==
    IF Len(c.response.Columns) = 0 THEN c
    ELSE [c EXCEPT !.columns = ColumnMap(c.response.Columns)]

unmarshalJSON(c, bytes) ==
    LET u  == Unmarshal(bytes, c.response)
        c1 == [c EXCEPT !.rawjson = bytes, !.response = u.value]
    IN  IF u.err # "" THEN [this |-> setError(c1, u.err), ok |-> FALSE]
        ELSE IF c1.response.Status # "ok"
             THEN [this |-> setErrorString(c1, c1.response.Msg), ok |-> FALSE]
             ELSE [this |-> setColumns(c1), ok |-> TRUE]

\* write without the check of rw.valid()
writeUnchecked(c, message, werr) ==
    LET c1 == [c EXCEPT !.requestId = @ + 1]
    IN  IF werr # ""
        THEN [this |-> setError(c1, werr), ok |-> FALSE, out |-> <<>>]
        ELSE [this |-> c1, ok |-> TRUE, out |-> <<c1.requestId>>]

\* write: werr is the error of rw.writeHeaderAndMessage, "" for none;
\* out holds the request id of the frame that went on the wire
write(c, message, werr) ==
    LET c1 == [c EXCEPT !.requestId = @ + 1]
    IN  IF ~c1.rw
        THEN [this |-> setErrorString(c1, "Not connected"), ok |-> FALSE, out |-> <<>>]
        ELSE IF werr # ""
             THEN [this |-> setError(c1, werr), ok |-> FALSE, out |-> <<>>]
             ELSE [this |-> c1, ok |-> TRUE,
                   out |-> <<c1.requestId>>]

popBacklog(c) ==
    IF c.backlog # <<>>
    THEN [this |-> [c EXCEPT !.backlog = Tail(@)], bytes |-> Head(c.backlog)]
    ELSE [this |-> c, bytes |-> NilBytes]

----------------------------------------------------------------------------
(* What a read of the connection can end in *)

NoRead == [kind |-> "none"]
Timeout == [kind |-> "timeout"]
ReadError == [kind |-> "error", err |-> "EOF"]
Frame(id, bytes) == [kind |-> "frame", RequestId |-> id, bytes |-> bytes]

NoHeader == [RequestId |-> 0, MessageSize |-> 0]

\* readTimeout: in is what rw.readMessageTimeout ends in
readTimeout(c, in) ==
    IF ~c.rw
    THEN [this |-> setErrorString(c, "Not connected"), header |-> NoHeader,
          bytes |-> NilBytes, success |-> FALSE, timedout |-> FALSE]
    ELSE IF in.kind = "timeout"
    THEN [this |-> c, header |-> NoHeader, bytes |-> NilBytes,
          success |-> TRUE, timedout |-> TRUE]
    ELSE IF in.kind = "error"
    THEN [this |-> setError(c, in.err), header |-> NoHeader, bytes |-> NilBytes,
          success |-> FALSE, timedout |-> FALSE]
    ELSE [this |-> c,
          header |-> [RequestId |-> in.RequestId, MessageSize |-> in.bytes.size],
          bytes |-> in.bytes, success |-> TRUE, timedout |-> FALSE]

read(c, in) ==
    LET r == readTimeout(c, in)
    IN  IF r.timedout
        THEN [this |-> setErrorString(r.this, "Read timed out"), header |-> NoHeader,
              bytes |-> NilBytes, ok |-> FALSE]
        ELSE [this |-> r.this, header |-> r.header, bytes |-> r.bytes,
              ok |-> r.success]

----------------------------------------------------------------------------
(* Client: the accessors *)

Connected == this.rw
Ok == this.err = ""
Failed == ~Ok
Error == this.err
JSON == this.rawjson
Action == this.response.Action
PubSubId == this.response.PubSubId
RowCount == this.response.Rows
ColumnCount == Len(this.response.Columns)
Columns == this.response.Columns

HasColumn(column) == \E e \in this.columns : e[1] = column

\* a Go index out of range
Panic == "panic: index out of range"

\* ordinals are zero based, sequences one based
ValueByOrdinal(ordinal) ==
    IF this.record < 0 \/ this.record >= Len(this.response.Data) THEN ""
    ELSE IF ordinal >= Len(this.response.Data[this.record + 1]) THEN ""
    ELSE IF ordinal < 0 THEN Panic
    ELSE this.response.Data[this.record + 1][ordinal + 1]

Value(column) ==
    IF ~HasColumn(column) THEN ""
    ELSE ValueByOrdinal((CHOOSE e \in this.columns : e[1] = column)[2])

----------------------------------------------------------------------------
(* The public operations, from a read call (or the call) to the return or *)
(* to the next read call: [this, pc, ret, dec], pc = "idle" for a return, *)
(* dec the payload handed to unmarshalJSON on the way, if any             *)

Return(c, r, dec) == [this |-> c, pc |-> "idle", ret |-> r, dec |-> dec]
AtRead(c, o) == [this |-> c, pc |-> o, ret |-> FALSE, dec |-> <<>>]

Decode(c, bytes) ==
    LET u == unmarshalJSON(c, bytes) IN Return(u.this, u.ok, <<bytes>>)

\* ExecuteFrame reporting a frame of an earlier request as a protocol error
ExecuteFrameStaleFails(c, header, bytes) ==
    IF header.RequestId = c.requestId THEN Decode(c, bytes)
    ELSE IF header.RequestId = 0
    THEN AtRead(reset([c EXCEPT !.backlog = Append(@, bytes)]), "Execute")
    ELSE Return(setErrorString(c, "protocol error invalid requestId"), FALSE, <<>>)

\* ExecuteFrame skipping a frame of a later request like one of an earlier one
ExecuteFrameSkipsLater(c, header, bytes) ==
    IF header.RequestId = c.requestId THEN Decode(c, bytes)
    ELSE IF header.RequestId = 0
    THEN AtRead(reset([c EXCEPT !.backlog = Append(@, bytes)]), "Execute")
    ELSE AtRead(reset(reset(c)), "Execute")

\* Execute, lines 123-141, then the reset at the head of the loop; the copy
\* pushed on the backlog has the MessageSize bytes of the payload, all of it
ExecuteFrame(c, header, bytes) ==
    IF header.RequestId = c.requestId THEN Decode(c, bytes)
    ELSE IF header.RequestId = 0
    THEN AtRead(reset([c EXCEPT !.backlog = Append(@, bytes)]), "Execute")
    ELSE IF header.RequestId < c.requestId
    THEN AtRead(reset(reset(c)), "Execute")
    ELSE Return(setErrorString(c, "protocol error invalid requestId"), FALSE, <<>>)

\* Execute, lines 113-118
ExecuteBegin(c, command, werr) ==
    LET w == write(reset(c), command, werr)
    IN  [step |-> IF w.ok THEN AtRead(reset(w.this), "Execute")
                  ELSE Return(w.this, FALSE, <<>>),
         out |-> w.out]

\* Execute, lines 119-122, then ExecuteFrame
ExecuteStep(c, in) ==
    LET r == read(c, in)
    IN  IF ~r.ok THEN Return(r.this, FALSE, <<>>)
        ELSE ExecuteFrame(r.this, r.header, r.bytes)

\* NextRowLoop with < for <=: the last row of a batch is taken for its end
NextRowLoopOffByOne(c) ==
    IF c.err # "" THEN Return(c, FALSE, <<>>)
    ELSE IF c.response.Rows = 0 THEN Return(c, FALSE, <<>>)
    ELSE IF c.response.Fromrow = 0 \/ c.response.Torow = 0 THEN Return(c, FALSE, <<>>)
    ELSE LET c1 == [c EXCEPT !.record = @ + 1]
         IN  IF c1.record < c1.response.Torow - c1.response.Fromrow
             THEN Return(c1, TRUE, <<>>)
             ELSE IF c1.response.Rows = c1.response.Torow
             THEN Return([c1 EXCEPT !.record = @ - 1], FALSE, <<>>)
             ELSE AtRead(reset(c1), "NextRow")

\* NextRowLoop without the step back at the end of the result set
NextRowLoopNoStepBack(c) ==
    IF c.err # "" THEN Return(c, FALSE, <<>>)
    ELSE IF c.response.Rows = 0 THEN Return(c, FALSE, <<>>)
    ELSE IF c.response.Fromrow = 0 \/ c.response.Torow = 0 THEN Return(c, FALSE, <<>>)
    ELSE LET c1 == [c EXCEPT !.record = @ + 1]
         IN  IF c1.record <= c1.response.Torow - c1.response.Fromrow
             THEN Return(c1, TRUE, <<>>)
             ELSE IF c1.response.Rows = c1.response.Torow
             THEN Return(c1, FALSE, <<>>)
             ELSE AtRead(reset(c1), "NextRow")

\* NextRow, lines 180-200
NextRowLoop(c) ==
    IF c.err # "" THEN Return(c, FALSE, <<>>)
    ELSE IF c.response.Rows = 0 THEN Return(c, FALSE, <<>>)
    ELSE IF c.response.Fromrow = 0 \/ c.response.Torow = 0 THEN Return(c, FALSE, <<>>)
    ELSE LET c1 == [c EXCEPT !.record = @ + 1]
         IN  IF c1.record <= c1.response.Torow - c1.response.Fromrow
             THEN Return(c1, TRUE, <<>>)
             ELSE IF c1.response.Rows = c1.response.Torow
             THEN Return([c1 EXCEPT !.record = @ - 1], FALSE, <<>>)
             ELSE AtRead(reset(c1), "NextRow")

\* NextRowStep without the check of the request id
NextRowStepUnchecked(c, in) ==
    LET r == read(c, in)
    IN  IF ~r.ok THEN Return(r.this, FALSE, <<>>)
        ELSE LET n == NextRowLoop(unmarshalJSON(r.this, r.bytes).this)
             IN  [n EXCEPT !.dec = <<r.bytes>>]

\* NextRow, lines 201-213, then the loop again
NextRowStep(c, in) ==
    LET r == read(c, in)
    IN  IF ~r.ok THEN Return(r.this, FALSE, <<>>)
        ELSE IF r.header.RequestId > 0 /\ r.header.RequestId # r.this.requestId
        THEN Return(setErrorString(r.this, "protocol error"), FALSE, <<>>)
        ELSE LET n == NextRowLoop(unmarshalJSON(r.this, r.bytes).this)
             IN  [n EXCEPT !.dec = <<r.bytes>>]

\* WaitForPubSub, lines 264-269
WaitLoop(c) ==
    LET p == popBacklog(reset(c))
    IN  IF p.bytes.size > 0 THEN Decode(p.this, p.bytes)
        ELSE AtRead(p.this, "WaitForPubSub")

\* WaitStep taking a timeout for an error, as Client.read does
WaitStepTimeoutIsError(c, in) ==
    LET r == read(c, in)
    IN  IF ~r.ok THEN Return(r.this, FALSE, <<>>)
        ELSE IF r.header.RequestId = 0 THEN Decode(r.this, r.bytes)
        ELSE WaitLoop(r.this)

\* WaitForPubSub, lines 270-279, then the loop again
WaitStep(c, in) ==
    LET r == readTimeout(c, in)
    IN  IF ~r.success \/ r.timedout THEN Return(r.this, FALSE, <<>>)
        ELSE IF r.header.RequestId = 0 THEN Decode(r.this, r.bytes)
        ELSE WaitLoop(r.this)

\* DisconnectOf starting the request ids again
DisconnectOfRestartsIds(c, werr) ==
    LET w == write(c, "close", werr)
    IN  [this |-> [reset(w.this) EXCEPT !.rw = FALSE, !.requestId = 0],
         out |-> w.out]

\* DisconnectOf emptying the backlog
DisconnectOfClearsBacklog(c, werr) ==
    LET w == write(c, "close", werr)
    IN  [this |-> [reset(w.this) EXCEPT !.rw = FALSE, !.backlog = <<>>],
         out |-> w.out]

\* Disconnect
DisconnectOf(c, werr) ==
    LET w == write(c, "close", werr)
    IN  [this |-> [reset(w.this) EXCEPT !.rw = FALSE], out |-> w.out]

\* Connect: derr is the error of net.DialTimeout, "" for none
ConnectOf(c, werr, derr) ==
    LET d == DisconnectOf(c, werr)
    IN  [step |-> IF derr # "" THEN Return(setError(d.this, derr), FALSE, <<>>)
                  ELSE Return([d.this EXCEPT !.rw = TRUE], TRUE, <<>>),
         out |-> d.out]

----------------------------------------------------------------------------
(* The environment *)

Commands == {"select"}
WriteErrors == {"", "broken pipe"}
DialErrors == {"", "connection refused"}

\* the frames c can read: pub/sub events, the answer to the current command,
\* batches of earlier commands and of a command not issued yet
Frames(c) ==
    {Frame(0, p) : p \in PubSubPayloads}
    \cup {Frame(c.requestId, p) : p \in Payloads}
    \cup {Frame(id, p) : id \in (1..(c.requestId + 1)) \ {c.requestId},
                         p \in StalePayloads}

\* what the read that c stands at can end in
Inputs(c) ==
    IF ~c.rw THEN {NoRead}
    ELSE {Timeout, ReadError} \cup Frames(c)

----------------------------------------------------------------------------
(* Bookkeeping of a result set delivered in consecutive batches: clean     *)
(* while the last Execute returned true on the batch that starts at row 1  *)
(* and every frame NextRow read since carried the current request id and   *)
(* the next window; rows is the size of the result set, last the torow of  *)
(* the batch delivered last, seen the NextRow calls that returned true     *)

NoScenario == [clean |-> FALSE, rows |-> 0, last |-> 0, seen |-> 0]

IsBatch(p, rows, from) ==
    /\ p.valid
    /\ {"status", "rows", "fromrow", "torow"} \subseteq DOMAIN p.obj
    /\ p.obj.status = "ok"
    /\ p.obj.rows = rows
    /\ p.obj.fromrow = from
    /\ p.obj.torow \in from..rows

ScenarioAfterExecute(in, r) ==
    IF /\ r.pc = "idle" /\ r.ret /\ in.kind = "frame"
       /\ in.bytes.valid /\ "rows" \in DOMAIN in.bytes.obj
       /\ in.bytes.obj.rows > 0
       /\ IsBatch(in.bytes, in.bytes.obj.rows, 1)
    THEN [clean |-> TRUE, rows |-> in.bytes.obj.rows,
          last |-> in.bytes.obj.torow, seen |-> 0]
    ELSE NoScenario

ScenarioAfterFetch(s, c, in) ==
    IF /\ s.clean /\ in.kind = "frame" /\ in.RequestId = c.requestId
       /\ IsBatch(in.bytes, s.rows, s.last + 1)
    THEN [s EXCEPT !.last = in.bytes.obj.torow]
    ELSE NoScenario

ScenarioAfterNextRow(s, r) ==
    IF s.clean /\ r.pc = "idle" /\ r.ret THEN [s EXCEPT !.seen = @ + 1] ELSE s

----------------------------------------------------------------------------
(* The actions *)

Init ==
    /\ this = NewClient
    /\ pc = "idle"
    /\ op = "new"
    /\ ret = TRUE
    /\ wire = <<>>
    /\ lastRead = NoRead
    /\ decoded = <<>>
    /\ scenario = NoScenario

\* the state after a step r of operation o
Took(o, r) ==
    /\ this' = r.this
    /\ pc' = r.pc
    /\ op' = o
    /\ ret' = IF r.pc = "idle" THEN r.ret ELSE ret

Connect ==
    /\ pc = "idle"
    /\ this.requestId < MaxRequestId
    /\ \E werr \in WriteErrors, derr \in DialErrors :
          LET r == ConnectOf(this, werr, derr)
          IN  /\ Took("Connect", r.step)
              /\ wire' = wire \o r.out
    /\ lastRead' = NoRead
    /\ decoded' = <<>>
    /\ scenario' = NoScenario

Disconnect ==
    /\ pc = "idle"
    /\ this.requestId < MaxRequestId
    /\ \E werr \in WriteErrors :
          LET r == DisconnectOf(this, werr)
          IN  /\ Took("Disconnect", Return(r.this, ret, <<>>))
              /\ wire' = wire \o r.out
    /\ lastRead' = NoRead
    /\ decoded' = <<>>
    /\ scenario' = NoScenario

Execute ==
    /\ pc = "idle"
    /\ this.requestId < MaxRequestId
    /\ \E command \in Commands, werr \in WriteErrors :
          LET r == ExecuteBegin(this, command, werr)
          IN  /\ Took("Execute", r.step)
              /\ wire' = wire \o r.out
    /\ lastRead' = NoRead
    /\ decoded' = <<>>
    /\ scenario' = NoScenario

ExecuteRead ==
    /\ pc = "Execute"
    /\ \E in \in Inputs(this) :
          /\ in.kind = "frame" /\ in.RequestId = 0 => Len(this.backlog) < MaxBacklog
          /\ LET r == ExecuteStep(this, in)
             IN  /\ Took("Execute", r)
                 /\ decoded' = IF r.dec # <<>> THEN r.dec ELSE decoded
                 /\ scenario' = ScenarioAfterExecute(in, r)
          /\ lastRead' = in
    /\ UNCHANGED wire

NextRow ==
    /\ pc = "idle"
    /\ LET r == NextRowLoop(this)
       IN  /\ Took("NextRow", r)
           /\ scenario' = ScenarioAfterNextRow(scenario, r)
    /\ lastRead' = NoRead
    /\ decoded' = <<>>
    /\ UNCHANGED wire

NextRowRead ==
    /\ pc = "NextRow"
    /\ \E in \in Inputs(this) :
          /\ LET r == NextRowStep(this, in)
             IN  /\ Took("NextRow", r)
                 /\ decoded' = IF r.dec # <<>> THEN r.dec ELSE decoded
                 /\ scenario' = ScenarioAfterNextRow(
                                    ScenarioAfterFetch(scenario, this, in), r)
          /\ lastRead' = in
    /\ UNCHANGED wire

WaitForPubSub ==
    /\ pc = "idle"
    /\ LET r == WaitLoop(this)
       IN  /\ Took("WaitForPubSub", r)
           /\ decoded' = r.dec
    /\ lastRead' = NoRead
    /\ scenario' = NoScenario
    /\ UNCHANGED wire

WaitForPubSubRead ==
    /\ pc = "WaitForPubSub"
    /\ \E in \in Inputs(this) :
          /\ LET r == WaitStep(this, in)
             IN  /\ Took("WaitForPubSub", r)
                 /\ decoded' = IF r.dec # <<>> THEN r.dec ELSE decoded
          /\ lastRead' = in
    /\ UNCHANGED <<wire, scenario>>

Next ==
    \/ Connect
    \/ Disconnect
    \/ Execute
    \/ ExecuteRead
    \/ NextRow
    \/ NextRowRead
    \/ WaitForPubSub
    \/ WaitForPubSubRead

Spec == Init /\ [][Next]_vars

\* every read that WaitForPubSub stands at completes: readTimeout returns a
\* frame, a timeout or an error
FairSpec == Init /\ [][Next]_vars /\ WF_vars(WaitForPubSubRead)

----------------------------------------------------------------------------
(* Properties *)

\* what a payload says, where it is a JSON object
Key(p, k, none) == IF p.valid /\ k \in DOMAIN p.obj THEN p.obj[k] ELSE none
IsOkPayload(p) == p.valid /\ Key(p, "status", "") = "ok"
IsNotOkPayload(p) == p.valid /\ Key(p, "status", "") # "ok"

ReadsFrame == pc # "idle" /\ this.rw /\ lastRead'.kind = "frame"
ReadsOwn == ReadsFrame /\ lastRead'.RequestId = this.requestId
ReadsPubSub == ReadsFrame /\ lastRead'.RequestId = 0
ReadsStale == ReadsFrame /\ lastRead'.RequestId \in 1..(this.requestId - 1)
ReadsLater == ReadsFrame /\ lastRead'.RequestId > this.requestId

AnsweredBy(p) ==
    /\ pc = "idle" /\ op = "Execute"
    /\ lastRead = Frame(this.requestId, p)

\* C1: on a connected client Execute returns true exactly when the first
\* frame it reads that carries the current request id is a response of status
\* "ok"; that frame ends the call, and a pub/sub frame or a frame of an
\* earlier request read before it leaves the call waiting, with no error set
C1_ExecuteResult ==
    [][/\ pc = "idle" /\ op' = "Execute" /\ pc' = "idle" => ~ret'
       /\ pc = "Execute" /\ pc' = "idle" =>
             (ret' <=> (ReadsOwn /\ IsOkPayload(lastRead'.bytes)))
       /\ pc = "Execute" /\ ReadsOwn => pc' = "idle"
       /\ pc = "Execute" /\ (ReadsPubSub \/ ReadsStale) =>
             /\ pc' = "Execute"
             /\ this'.err = ""
             /\ this'.requestId = this.requestId]_vars

C1_Witness ==
    /\ AnsweredBy(Subscribed)
    /\ ret
    /\ this.backlog # <<>>
    /\ this.requestId = MaxRequestId

\* C2: a WaitForPubSub call made while the backlog is not empty decodes the
\* payload at the front of the backlog, removes it and returns without
\* reading a frame; Execute puts every pub/sub payload it reads at the back
C2_BacklogFifo ==
    [][/\ pc = "idle" /\ op' = "WaitForPubSub" /\ this.backlog # <<>> =>
             /\ pc' = "idle"
             /\ decoded' = <<Head(this.backlog)>>
             /\ this'.backlog = Tail(this.backlog)
       /\ pc = "Execute" /\ ReadsPubSub =>
             this'.backlog = Append(this.backlog, lastRead'.bytes)]_vars

\* C3: a frame of request id 0 that the client reads is decoded and returned
\* by the WaitForPubSub call that read it, or is put on the backlog
C3_NoPubSubLost ==
    [][ReadsPubSub =>
          \/ /\ pc = "WaitForPubSub" /\ pc' = "idle"
             /\ decoded' = <<lastRead'.bytes>>
          \/ this'.backlog = Append(this.backlog, lastRead'.bytes)]_vars

\* C4: over a result set of N rows delivered in consecutive batches, the k-th
\* NextRow call that returns true stands on row k, NextRow returns false,
\* with Ok, only after N rows and without reading; a call reads a frame only
\* when a batch other than the last is exhausted, and that one frame gives
\* it the first row of the next batch
C4_State ==
    /\ scenario.clean /\ pc = "NextRow" =>
          scenario.seen = scenario.last /\ scenario.last < scenario.rows
    /\ scenario.clean /\ pc = "idle" /\ op = "NextRow" /\ ret =>
          /\ scenario.seen = this.response.Fromrow + this.record
          /\ scenario.seen <= scenario.rows
          /\ lastRead.kind = "frame" <=>
                (this.record = 0 /\ this.response.Fromrow > 1)
    /\ scenario.clean /\ pc = "idle" /\ op = "NextRow" /\ ~ret =>
          /\ scenario.seen = scenario.rows
          /\ this.response.Torow = scenario.rows
          /\ Ok
          /\ lastRead = NoRead

C4_Cursor ==
    /\ []C4_State
    /\ [][pc = "NextRow" /\ scenario'.clean => pc' = "idle" /\ ret']_vars

C4_Witness ==
    /\ scenario.clean /\ pc = "idle" /\ op = "NextRow" /\ ~ret
    /\ scenario.seen = MaxRows
    /\ this.response.Fromrow > 1

\* C5: the request ids of the frames the client writes are strictly increasing
C5_IdsIncrease == \A i, j \in DOMAIN wire : i < j => wire[i] < wire[j]

C5_Witness == Len(wire) >= 2 /\ this.requestId = MaxRequestId /\ ~this.rw

\* C6: the first frame a client writes, when Execute writes it, carries
\* request id 1
C6_FirstIdIsOne ==
    [][pc = "idle" /\ op' = "Execute" /\ wire = <<>> /\ wire' # <<>> =>
          wire'[1] = 1]_vars

\* C7: when Execute or Connect returns false, and when WaitForPubSub returns
\* false for another reason than a timeout, the error is not empty
C7_FailureSetsErr ==
    /\ pc = "idle" /\ ~ret
    /\ \/ op \in {"Execute", "Connect"}
       \/ op = "WaitForPubSub" /\ lastRead.kind # "timeout"
    => Failed /\ Error # ""

\* C8, as claimed: a response of another status than "ok" makes Execute
\* return false with the msg as the error, and the record stays stored
C8_RecordKept ==
    \A p \in Payloads :
        AnsweredBy(p) /\ IsNotOkPayload(p) =>
            /\ ~ret
            /\ Error = Key(p, "msg", "")
            /\ Action = Key(p, "action", "")
            /\ RowCount = Key(p, "rows", 0)
            /\ PubSubId = Key(p, "pubsubid", "")
            /\ JSON = p

\* C8, amended: a response of another status than "ok" makes Execute return
\* false with the msg as the error, and the record is cleared
C8_RecordCleared ==
    \A p \in Payloads :
        AnsweredBy(p) /\ IsNotOkPayload(p) =>
            /\ ~ret
            /\ Error = Key(p, "msg", "")
            /\ Action = ""
            /\ RowCount = 0
            /\ PubSubId = ""
            /\ JSON = NilBytes
            /\ this.record = -1

C8_Witness == AnsweredBy(SyntaxError) /\ Error = "syntax error"

ColumnNames == {"a", "b"}

\* C9: from the reset at the start of Execute or WaitForPubSub to the next
\* decode of a response with columns, no name has a column
C9_ColumnsCleared ==
    op \in {"Execute", "WaitForPubSub"} /\ Len(this.response.Columns) = 0 =>
        \A name \in ColumnNames : ~HasColumn(name) /\ Value(name) = ""

\* C10: a frame with a request id above the current one ends Execute, which
\* returns false with the error "protocol error invalid requestId"
C10_LaterIdFails ==
    [][pc = "Execute" /\ ReadsLater =>
          /\ pc' = "idle"
          /\ ~ret'
          /\ this'.err = "protocol error invalid requestId"]_vars

C10_Witness ==
    /\ pc = "idle" /\ op = "Execute" /\ ~ret
    /\ lastRead.kind = "frame" /\ lastRead.RequestId > this.requestId
    /\ Error = "protocol error invalid requestId"
    /\ this.backlog # <<>>

\* C11: WaitForPubSub called on a connected client with an empty backlog
\* stands at its read with the error cleared, and when that read times out
\* it returns false with no error; request id and backlog stay as they were
C11_TimeoutIsNoError ==
    [][/\ pc = "idle" /\ op' = "WaitForPubSub" /\ this.rw /\ this.backlog = <<>> =>
             /\ pc' = "WaitForPubSub"
             /\ this'.err = ""
             /\ this'.backlog = this.backlog
             /\ this'.requestId = this.requestId
       /\ pc = "WaitForPubSub" /\ this.rw /\ lastRead'.kind = "timeout" =>
             /\ pc' = "idle"
             /\ ~ret'
             /\ this'.err = ""
             /\ this'.backlog = this.backlog
             /\ this'.requestId = this.requestId]_vars

C11_Witness ==
    /\ pc = "idle" /\ op = "WaitForPubSub" /\ ~ret
    /\ lastRead = Timeout
    /\ Ok
    /\ this.backlog = <<>>

\* C12: a Disconnect that follows a Disconnect leaves every field of the
\* client as the first left it and writes nothing
C12_DisconnectTwice ==
    [][pc = "idle" /\ op = "Disconnect" /\ op' = "Disconnect" =>
          this' = this /\ wire' = wire]_vars

\* the ordinals a caller may pass, negative ones included
Ordinals == -1..2

InRange(ordinal) ==
    /\ this.record >= 0 /\ this.record < Len(this.response.Data)
    /\ ordinal >= 0 /\ ordinal < Len(this.response.Data[this.record + 1])

\* C13: ValueByOrdinal returns data[record][ordinal] when record and ordinal
\* are in range and "" in every other case, for every ordinal
C13_ValueByOrdinalTotal ==
    \A ordinal \in Ordinals :
        ValueByOrdinal(ordinal) =
            IF InRange(ordinal)
            THEN this.response.Data[this.record + 1][ordinal + 1]
            ELSE ""

\* C14, as claimed: on a client that is not connected Execute and
\* WaitForPubSub return false with the error "Not connected", whatever the
\* backlog holds
C14_NotConnected ==
    pc = "idle" /\ op \in {"Execute", "WaitForPubSub"} /\ ~Connected =>
        ~ret /\ Error = "Not connected"

FrontIsPayload == this.backlog # <<>> /\ Head(this.backlog).size > 0

\* C14, amended: on a client that is not connected Execute returns false
\* with the error "Not connected", and so does WaitForPubSub unless the front
\* of the backlog is a payload that is not empty: that payload it decodes,
\* and returns what the decode returns
C14_NotConnectedOrBacklog ==
    [][/\ pc = "idle" /\ ~Connected /\ op' = "Execute" =>
             pc' = "idle" /\ ~ret' /\ this'.err = "Not connected"
       /\ pc = "idle" /\ ~Connected /\ op' = "WaitForPubSub" /\ ~FrontIsPayload =>
             pc' = "WaitForPubSub"
       /\ pc = "WaitForPubSub" /\ ~Connected =>
             pc' = "idle" /\ ~ret' /\ this'.err = "Not connected"
       /\ pc = "idle" /\ ~Connected /\ op' = "WaitForPubSub" /\ FrontIsPayload =>
             /\ pc' = "idle"
             /\ decoded' = <<Head(this.backlog)>>
             /\ ret' = IsOkPayload(Head(this.backlog))]_vars

C14_Witness ==
    /\ pc = "idle" /\ op = "WaitForPubSub" /\ ~Connected
    /\ ret
    /\ decoded = <<Subscribed>>

\* C15: when the frame NextRow fetches carries a request id that is neither
\* 0 nor the current one, NextRow returns false with the error "protocol
\* error" and decodes nothing; the response is cleared, the record is -1
C15_FetchOtherId ==
    [][pc = "NextRow" /\ (ReadsStale \/ ReadsLater) =>
          /\ pc' = "idle"
          /\ ~ret'
          /\ this'.err = "protocol error"
          /\ decoded' = decoded
          /\ this'.response = responseReset(this.response)
          /\ this'.rawjson = NilBytes
          /\ this'.record = -1]_vars

C15_Witness ==
    /\ pc = "idle" /\ op = "NextRow" /\ ~ret
    /\ lastRead.kind = "frame"
    /\ lastRead.RequestId \notin {0, this.requestId}
    /\ Error = "protocol error"

\* C16: WaitForPubSub returns true only after decoding a payload popped from
\* the backlog or carried by a frame of request id 0; a frame of any other
\* request id read during the call is neither decoded nor put on the
\* backlog, and the call stands at its read again for the next frame
C16_OtherIdsSkipped ==
    [][/\ (op' = "WaitForPubSub" /\ pc' = "idle" /\ ret' /\ pc = "idle") =>
              /\ this.backlog # <<>>
              /\ decoded' = <<Head(this.backlog)>>
       /\ (pc = "WaitForPubSub" /\ pc' = "idle" /\ ret') =>
              /\ ReadsPubSub
              /\ decoded' = <<lastRead'.bytes>>
       /\ (pc = "WaitForPubSub" /\ ReadsFrame /\ lastRead'.RequestId # 0) =>
              /\ pc' = "WaitForPubSub"
              /\ decoded' = decoded
              /\ Len(this'.backlog) <= Len(this.backlog)
              /\ this'.response = responseReset(this.response)]_vars

\* C17: between operations a non-empty error implies an empty stored
\* response (no rows, action, pubsubid, columns or data), an empty JSON and
\* the record at -1; NextRow then returns false and changes nothing, and
\* ValueByOrdinal returns "" for every ordinal
C17_FailedIsCleared ==
    (pc = "idle" /\ Failed) =>
        /\ RowCount = 0 /\ Action = "" /\ PubSubId = ""
        /\ ColumnCount = 0 /\ this.response.Data = <<>>
        /\ this.response = responseReset(this.response)
        /\ JSON = NilBytes
        /\ this.record = -1
        /\ NextRowLoop(this) = Return(this, FALSE, <<>>)
        /\ \A ordinal \in Ordinals : ValueByOrdinal(ordinal) = ""

C17_Witness ==
    /\ pc = "idle" /\ Failed
    /\ op \in {"Execute", "NextRow"}
    /\ this.columns # {}

Max(a, b) == IF a >= b THEN a ELSE b

LastRecord == this.response.Torow - this.response.Fromrow

\* NextRow has returned false at the end of the result set
AtEndOfResultSet ==
    /\ pc = "idle" /\ op = "NextRow" /\ ~ret /\ Ok
    /\ RowCount # 0 /\ this.response.Fromrow # 0
    /\ this.response.Torow = RowCount

\* C18: between operations -1 <= record <= max(-1, torow - fromrow); after
\* NextRow returned true 0 <= record <= torow - fromrow; after NextRow
\* returned false at the end of the result set the record is on the last row
\* of the last batch, and a further NextRow returns false, reads no frame and
\* leaves the client as it is
C18_RecordInBatch ==
    /\ [](pc = "idle" =>
            /\ -1 <= this.record
            /\ this.record <= Max(-1, LastRecord)
            /\ (op = "NextRow" /\ ret) =>
                   (0 <= this.record /\ this.record <= LastRecord)
            /\ AtEndOfResultSet => this.record = LastRecord)
    /\ [][(AtEndOfResultSet /\ op' = "NextRow") =>
              /\ pc' = "idle" /\ ~ret'
              /\ lastRead' = NoRead
              /\ this' = this]_vars

C18_Witness ==
    /\ AtEndOfResultSet
    /\ this.response.Fromrow > 1
    /\ this.record = LastRecord
    /\ lastRead = NoRead

\* C19: the backlog changes only when Execute appends the payload of a frame
\* of request id 0 at its back and when WaitForPubSub removes its front;
\* Connect, Disconnect and NextRow, with the resets and errors they set,
\* leave it as it is, and a payload that is at the front after a Disconnect
\* and a Connect is what the next WaitForPubSub returns
C19_BacklogFrame ==
    [][/\ this'.backlog # this.backlog =>
              \/ /\ pc = "Execute" /\ ReadsPubSub
                 /\ this'.backlog = Append(this.backlog, lastRead'.bytes)
              \/ /\ op' = "WaitForPubSub" /\ this.backlog # <<>>
                 /\ this'.backlog = Tail(this.backlog)
       /\ op' \in {"Connect", "Disconnect", "NextRow"} =>
              this'.backlog = this.backlog
       /\ (pc = "idle" /\ op = "Connect" /\ op' = "WaitForPubSub"
             /\ this.backlog # <<>> /\ Head(this.backlog).size > 0) =>
              /\ pc' = "idle"
              /\ decoded' = <<Head(this.backlog)>>
              /\ this'.rawjson = Head(this.backlog)
              /\ ret' = IsOkPayload(Head(this.backlog))]_vars

C19_Witness ==
    /\ pc = "idle" /\ op = "Connect" /\ ret /\ Connected
    /\ this.backlog # <<>>
    /\ Head(this.backlog).size > 0

\* C20: every WaitForPubSub call eventually returns, whatever frames the
\* connection delivers, when each of its reads completes
C20_WaitReturns == (pc = "WaitForPubSub") ~> (pc = "idle")

====
